---- MODULE Spec2Model ----
(***************************************************************************)
(* easy_server: the Node/Group dispatch engine (engine.Register,           *)
(* engine.RegisterGroup, engine.ServeHTTP, reqContext.Next).               *)
(*                                                                         *)
(* Strings are sequences: a method is a sequence of byte values (so that   *)
(* sort.Strings and strings.Join are computed, not assumed), a path is a   *)
(* sequence of one-character strings.  A Go slice is a window             *)
(* [arr, len] on a backing array of the heap; its capacity is the length   *)
(* of that array.  A chain unit is named by a string; what it does when    *)
(* it is invoked is its Script.                                            *)
(***************************************************************************)
EXTENDS Integers, Sequences, FiniteSets, TLC

VARIABLES heap, e, regLog, fatal, serving, req, prev, mw, reqs

vars == <<heap, e, regLog, fatal, serving, req, prev, mw, reqs>>

\* the state of the Node/Group engine and of the request it serves
mainVars == <<heap, e, regLog, fatal, serving, req, prev>>

(***************************************************************************)
(* Bounds and program constants                                            *)
(***************************************************************************)
\* number of Register / RegisterGroup calls of the startup phase
MaxRegs == 2

Comma == 44
StatusMethodNotAllowed == 405
StatusPermanentRedirect == 308
StatusNotFound == 404

Nil == "nil"

GET == <<71, 69, 84>>
POST == <<80, 79, 83, 84>>
PUT == <<80, 85, 84>>
DELETE == <<68, 69, 76, 69, 84, 69>>

\* req.URL.Path = "/" (one variant) or "/index" (the two older variants)
RootPath == <<"/">>
IndexPath == <<"/", "i", "n", "d", "e", "x">>

(***************************************************************************)
(* Strings: comparison, sort.Strings, strings.Join                         *)
(***************************************************************************)
RECURSIVE StrLess(_, _)
\* a < b on Go strings: bytewise lexicographic, a proper prefix is smaller
StrLess(a, b) ==
    IF Len(b) = 0 THEN FALSE
    ELSE IF Len(a) = 0 THEN TRUE
    ELSE IF Head(a) < Head(b) THEN TRUE
    ELSE IF Head(a) > Head(b) THEN FALSE
    ELSE StrLess(Tail(a), Tail(b))

RECURSIVE InsertSorted(_, _)
InsertSorted(x, s) ==
    IF Len(s) = 0 THEN <<x>>
    ELSE IF StrLess(Head(s), x) THEN <<Head(s)>> \o InsertSorted(x, Tail(s))
    ELSE <<x>> \o s

\* a sort that is forgotten
SortStringsMutant(s) == s

RECURSIVE SortStrings(_)
\* sort.Strings(e.allowedMethods.s)
SortStrings(s) ==
    IF Len(s) = 0 THEN <<>>
    ELSE InsertSorted(Head(s), SortStrings(Tail(s)))

RECURSIVE Join(_, _)
\* strings.Join(s, sep)
Join(s, sep) ==
    IF Len(s) = 0 THEN <<>>
    ELSE IF Len(s) = 1 THEN Head(s)
    ELSE Head(s) \o sep \o Join(Tail(s), sep)

SeqContains(s, x) == \E i \in 1..Len(s) : s[i] = x

(***************************************************************************)
(* Go slices on a heap of backing arrays                                   *)
(***************************************************************************)
NilSlice == [arr |-> 0, len |-> 0]

Cap(h, s) == IF s.arr = 0 THEN 0 ELSE Len(h[s.arr])

Contents(h, s) == IF s.arr = 0 THEN <<>> ELSE SubSeq(h[s.arr], 1, s.len)

\* the runtime's growth of a full slice: double (or the needed length when
\* that is larger), rounded up to an allocation size class
GrowCap(oldCap, newLen) ==
    LET c == IF newLen > 2 * oldCap THEN newLen ELSE 2 * oldCap
    IN  IF c <= 4 THEN c ELSE IF c % 2 = 0 THEN c ELSE c + 1

\* append(s, elems...): in place when the capacity allows it (the backing
\* array is shared with every other slice on it), else on a fresh array
AppendSlice(h, s, elems) ==
    LET newLen == s.len + Len(elems)
    IN  IF newLen <= Cap(h, s)
        THEN [heap |-> IF Len(elems) = 0 THEN h
                       ELSE [h EXCEPT ![s.arr] =
                               [i \in 1..Len(h[s.arr]) |->
                                  IF i > s.len /\ i <= newLen
                                  THEN elems[i - s.len] ELSE h[s.arr][i]]],
              slice |-> [arr |-> s.arr, len |-> newLen]]
        ELSE LET newCap == GrowCap(Cap(h, s), newLen)
                 old == Contents(h, s)
                 fresh == [i \in 1..newCap |->
                             IF i <= s.len THEN old[i]
                             ELSE IF i <= newLen THEN elems[i - s.len]
                             ELSE Nil]
             IN  [heap |-> Append(h, fresh),
                  slice |-> [arr |-> Len(h) + 1, len |-> newLen]]

(***************************************************************************)
(* The router (github.com/gogokit/router), as the engine uses it           *)
(***************************************************************************)
\* the other slash form of a path
SlashVariant(p) ==
    IF Len(p) > 0 /\ p[Len(p)] = "/" THEN SubSeq(p, 1, Len(p) - 1)
    ELSE p \o <<"/">>

\* e.r.Register(method, path, value): the last registration of a key wins
RouterRegister(r, method, path, value) ==
    [k \in (DOMAIN r) \cup {<<method, path>>} |->
        IF k = <<method, path>> THEN value ELSE r[k]]

\* e.r.Lookup(method, path): the value of an exact match, or no value and
\* whether the other slash form of the path is registered
Lookup(r, method, path) ==
    IF <<method, path>> \in DOMAIN r
    THEN [found |-> TRUE, value |-> r[<<method, path>>], urlParams |-> <<>>,
          redirect |-> FALSE]
    ELSE [found |-> FALSE, value |-> [middlewares |-> NilSlice, matchPath |-> <<>>],
          urlParams |-> <<>>,
          redirect |-> <<method, SlashVariant(path)>> \in DOMAIN r]

(***************************************************************************)
(* Registration: engine.Register, engine.RegisterGroup                     *)
(***************************************************************************)
\* what the units do when invoked: "next" is a call of c.Next(), "write" a
\* write of the response, "panic" a panic; after its last step a unit returns
Script(u) ==
    CASE u = "L" -> <<"next">>
      [] u = "M" -> <<"next", "write">>
      [] u = "A" -> <<"write">>
      [] u = "H" -> <<"write", "next">>
      [] u = "G" -> <<>>
      [] u = "P" -> <<"panic">>
      [] u = "D" -> <<"next", "next">>
      [] OTHER -> <<>>

\* the caller's middleware slices, as they are before the first registration:
\* 1 = [L] cap 1, 2 = [L] cap 2 (one spare slot), 3 = [A L], 4 = [L M],
\* 5 = [D], 6 = [M], 7 = [nil], 8 = [H]
InitHeap ==
    << <<"L">>, <<"L", Nil>>, <<"A", "L">>, <<"L", "M">>, <<"D">>, <<"M">>,
       <<Nil>>, <<"H">> >>

mwExact == [arr |-> 1, len |-> 1]
mwSpare == [arr |-> 2, len |-> 1]
mwAL == [arr |-> 3, len |-> 2]
mwLM == [arr |-> 4, len |-> 2]
mwD == [arr |-> 5, len |-> 1]
mwM == [arr |-> 6, len |-> 1]
mwNil == [arr |-> 7, len |-> 1]
mwH == [arr |-> 8, len |-> 1]

MkNode(m, p, mws, hd) ==
    [Method |-> m, Path |-> p, Middlewares |-> mws, Handler |-> hd]

\* the nodes a caller registers
NodePool ==
    { MkNode(GET, <<"/", "a">>, mwSpare, "H"),
      MkNode(POST, <<"/", "a">>, mwSpare, "G"),
      MkNode(GET, <<"/", "b", "/">>, mwAL, "G"),
      MkNode(PUT, <<>>, NilSlice, "G"),
      MkNode(GET, <<"/", "p">>, mwLM, "P"),
      MkNode(POST, <<"/", "c">>, mwLM, "H"),
      MkNode(GET, <<"/", "d">>, mwD, "H"),
      MkNode(GET, <<"/", "n">>, mwSpare, Nil),
      MkNode(POST, <<"/", "n">>, mwNil, "G"),
      MkNode(PUT, <<"/", "w">>, mwH, "P") }

\* the groups a caller registers
GroupPool ==
    { [RootPath |-> <<"/", "g">>, Middlewares |-> mwSpare,
       Children |-> << MkNode(GET, <<"/", "x">>, NilSlice, "H"),
                       MkNode(GET, <<"/", "y">>, NilSlice, "G") >>],
      [RootPath |-> <<"/", "v">>, Middlewares |-> mwExact,
       Children |-> << MkNode(GET, <<"/", "u">>, mwM, "H"),
                       MkNode(POST, <<"/", "u">>, mwM, "G") >>] }

EmptyEngine ==
    [r |-> <<>>, allowedMethods |-> [s |-> <<>>, str |-> <<>>]]

\* the membership test of Register left out: the method is always appended
AddMethodNoCheck(am, method) ==
    LET s1 == SortStrings(Append(am.s, method))
    IN  [s |-> s1, str |-> Join(s1, <<Comma>>)]

\* the tail of Register: the method is added to e.allowedMethods unless it is
\* there, and the list is sorted and joined again
AddMethod(am, method) ==
    IF SeqContains(am.s, method) THEN am
    ELSE LET s1 == SortStrings(Append(am.s, method))
         IN  [s |-> s1, str |-> Join(s1, <<Comma>>)]

\* engine.Register(node) on heap h and engine en.  log: what was registered.
Register(h, en, node) ==
    LET a == AppendSlice(h, node.Middlewares, <<node.Handler>>)
        mws == a.slice
    IN  IF \E i \in 1..mws.len : a.heap[mws.arr][i] = Nil
        THEN [heap |-> a.heap, e |-> en, panicked |-> TRUE]
        ELSE [heap |-> a.heap,
              e |-> [r |-> RouterRegister(en.r, node.Method, node.Path,
                             [middlewares |-> mws, matchPath |-> node.Path]),
                     allowedMethods |-> AddMethod(en.allowedMethods, node.Method)],
              panicked |-> FALSE]

\* what the caller passed for a node in call number n: the chain is read
\* from the caller's slices as they are when the call is made
Passed(h, node, gmws, root, g, n) ==
    [Method |-> node.Method, Path |-> root \o node.Path,
     chain |-> Contents(h, gmws) \o Contents(h, node.Middlewares) \o <<node.Handler>>,
     group |-> g, call |-> n]

NumCalls(log) == IF Len(log) = 0 THEN 0 ELSE log[Len(log)].call

RECURSIVE RegisterChildren(_, _, _, _, _, _)
\* the loop of engine.RegisterGroup over group.Children[i..]
RegisterChildren(h, en, group, i, log, n) ==
    IF i > Len(group.Children) THEN [heap |-> h, e |-> en, panicked |-> FALSE, log |-> log]
    ELSE LET v == group.Children[i]
             a == AppendSlice(h, group.Middlewares, Contents(h, v.Middlewares))
             v1 == [v EXCEPT !.Middlewares = a.slice,
                             !.Path = group.RootPath \o v.Path]
             reg == Register(a.heap, en, v1)
         IN  IF reg.panicked
             THEN [heap |-> reg.heap, e |-> reg.e, panicked |-> TRUE, log |-> log]
             ELSE RegisterChildren(reg.heap, reg.e, group, i + 1,
                     Append(log, Passed(h, v, group.Middlewares, group.RootPath, TRUE, n)),
                     n)

\* engine.RegisterGroup(group)
RegisterGroup(h, en, group, log) ==
    RegisterChildren(h, en, group, 1, log, NumCalls(log) + 1)

\* the chain stored for a route, read through its slice
ChainOf(h, value) == Contents(h, value.middlewares)

(***************************************************************************)
(* A request: the state of one execution of engine.ServeHTTP               *)
(***************************************************************************)
ReqMethods == {GET, POST, PUT, DELETE}

ReqPaths ==
    { <<>>, <<"/">>, <<"/", "a">>, <<"/", "a", "/">>, <<"/", "b">>,
      <<"/", "b", "/">>, <<"/", "p">>, <<"/", "c">>, <<"/", "d">>,
      <<"/", "g", "/", "x">>, <<"/", "g", "/", "y">>, <<"/", "v", "/", "u">>,
      <<"/", "w">>, <<"/", "z">>, IndexPath }

\* the two rewritten paths of the variants of ServeHTTP
EmptyPathTargets == {RootPath, IndexPath}

Ev(name, pos, val) == [e |-> name, pos |-> pos, val |-> val]

NoContext ==
    [middlewares |-> NilSlice, curMW |-> 0, matchPath |-> <<>>, pathParam |-> <<>>]

IdleReq ==
    [pc |-> "idle", method |-> <<>>, path |-> <<>>, origPath |-> <<>>,
     header |-> {}, allow |-> <<>>,
     status |-> 0, sentHeader |-> {}, sentAllow |-> <<>>, target |-> <<>>,
     c |-> NoContext, stack |-> <<>>, panicking |-> FALSE, faulted |-> FALSE,
     trace |-> <<>>, outcome |-> "none",
     before |-> [e |-> EmptyEngine, heap |-> <<>>]]

NoPrev == [faulted |-> FALSE, method |-> <<>>, path |-> <<>>, status |-> 0,
           trace |-> <<>>, before |-> [e |-> EmptyEngine, heap |-> <<>>]]

\* resp.WriteHeader(status): the status and the header map as it is now are
\* what the client gets; a later WriteHeader or header change has no effect
WriteHeader(rq, status) ==
    IF rq.status # 0 THEN rq
    ELSE [rq EXCEPT !.status = status, !.sentHeader = rq.header,
                    !.sentAllow = rq.allow]

Log(rq, ev) == [rq EXCEPT !.trace = Append(rq.trace, ev)]

\* http.Redirect(resp, req, req.URL.String(), code)
Redirect(rq, code) ==
    WriteHeader([rq EXCEPT !.header = rq.header \cup {"Location"},
                           !.target = rq.path], code)

\* the trailing slash of req.URL.Path toggled; indexing the empty path panics
Toggle(p) ==
    IF Len(p) = 0 THEN <<"panic: index out of range">>
    ELSE IF p[Len(p)] = "/" THEN SubSeq(p, 1, Len(p) - 1)
    ELSE p \o <<"/">>

\* entry of ServeHTTP: the log id, the deferred response trace, the request trace
ServeBegin(h, en, method, path) ==
    [IdleReq EXCEPT !.pc = "gate", !.method = method, !.path = path,
                    !.origPath = path,
                    !.trace = <<Ev("reqTrace", 0, 0)>>,
                    !.before = [e |-> en, heap |-> h]]

\* a gate on the (method, path) pair instead of the method
MethodGateByRoute(rq, en) ==
    IF <<rq.method, rq.path>> \notin DOMAIN en.r
    THEN WriteHeader([rq EXCEPT !.header = rq.header \cup {"Allow"},
                                !.allow = en.allowedMethods.str,
                                !.outcome = "405",
                                !.pc = "deferTrace"],
                     StatusMethodNotAllowed)
    ELSE [rq EXCEPT !.pc = "emptyPath"]

\* the method gate
MethodGate(rq, en) ==
    IF ~SeqContains(en.allowedMethods.s, rq.method)
    THEN WriteHeader([rq EXCEPT !.header = rq.header \cup {"Allow"},
                                !.allow = en.allowedMethods.str,
                                !.outcome = "405",
                                !.pc = "deferTrace"],
                     StatusMethodNotAllowed)
    ELSE [rq EXCEPT !.pc = "emptyPath"]

\* the redirect of the empty path without the rewrite
EmptyPathNoRewrite(rq, t) ==
    IF rq.path = <<>>
    THEN Redirect([rq EXCEPT !.outcome = "empty308", !.pc = "deferTrace"],
                  StatusPermanentRedirect)
    ELSE [rq EXCEPT !.pc = "lookup"]

\* the empty path is rewritten to t and redirected
EmptyPath(rq, t) ==
    IF rq.path = <<>>
    THEN Redirect([rq EXCEPT !.path = t, !.outcome = "empty308",
                             !.pc = "deferTrace"],
                  StatusPermanentRedirect)
    ELSE [rq EXCEPT !.pc = "lookup"]

\* a lookup that runs the chain of the other slash form after the redirect
LookupStepRunsVariant(rq, en) ==
    LET l == Lookup(en.r, rq.method, rq.path)
        v == IF l.found THEN l.value
             ELSE IF l.redirect THEN en.r[<<rq.method, SlashVariant(rq.path)>>]
             ELSE l.value
    IN  IF l.found \/ l.redirect
        THEN Log([(IF l.found THEN rq ELSE Redirect(rq, StatusPermanentRedirect))
                    EXCEPT !.c = [middlewares |-> v.middlewares, curMW |-> 0,
                                  matchPath |-> v.matchPath, pathParam |-> <<>>],
                           !.stack = <<[pos |-> -1, unit |-> "ServeHTTP", ip |-> 1,
                                        found |-> -1]>>,
                           !.outcome = IF l.found THEN "chain" ELSE "tsr308",
                           !.pc = "run"],
                 Ev("lookup", 0, 1))
        ELSE WriteHeader(Log([rq EXCEPT !.outcome = "404", !.pc = "deferTrace"],
                             Ev("lookup", 0, 0)),
                         StatusNotFound)

\* the lookup and what follows it: the context of a match, a 404, or the
\* redirect to the other slash form
LookupStep(rq, en) ==
    LET l == Lookup(en.r, rq.method, rq.path)
    IN  IF l.found
        THEN Log([rq EXCEPT !.c = [middlewares |-> l.value.middlewares,
                                   curMW |-> 0,
                                   matchPath |-> l.value.matchPath,
                                   pathParam |-> l.urlParams],
                            !.stack = <<[pos |-> -1, unit |-> "ServeHTTP", ip |-> 1, found |-> -1]>>,
                            !.outcome = "chain",
                            !.pc = "run"],
                 Ev("lookup", 0, 1))
        ELSE IF ~l.redirect
        THEN WriteHeader(Log([rq EXCEPT !.outcome = "404", !.pc = "deferTrace"],
                             Ev("lookup", 0, 0)),
                         StatusNotFound)
        ELSE Redirect(Log([rq EXCEPT !.path = Toggle(rq.path),
                                     !.outcome = "tsr308",
                                     !.pc = "deferTrace"],
                          Ev("lookup", 0, 0)),
                      StatusPermanentRedirect)

(***************************************************************************)
(* reqContext.Next and the execution of the chain                          *)
(***************************************************************************)
Top(rq) == rq.stack[Len(rq.stack)]

FrameScript(f) == IF f.pos = -1 THEN <<"next">> ELSE Script(f.unit)

AdvanceIp(stack) == [stack EXCEPT ![Len(stack)].ip = @ + 1]

\* a panic caught where the unit was invoked: only its frame is dropped
RaisePerUnit(rq, pos) ==
    Log(Log([rq EXCEPT !.faulted = TRUE,
                       !.stack = SubSeq(rq.stack, 1, Len(rq.stack) - 1)],
            Ev("panic", pos, 0)),
        Ev("critical", 0, 0))

\* a panic unwinds every frame down to the deferred functions of ServeHTTP
Raise(rq, pos) ==
    Log([rq EXCEPT !.panicking = TRUE, !.faulted = TRUE, !.stack = <<>>,
                   !.pc = "deferRecover"],
        Ev("panic", pos, 0))

\* the index invoked, taken for the cursor itself
InvokedIndexMutant(curMW) == curMW

\* the index of c.middlewares[c.curMW-1], curMW being the cursor after c.curMW++
InvokedIndex(curMW) == curMW - 1

\* s[i] of a Go slice (i from 0): bounds-checked against the length
UnitAt(h, s, i) == IF i < 0 \/ i >= s.len THEN "outOfRange" ELSE h[s.arr][i + 1]

\* a Next that moves the cursor only after the unit has returned
NextIncrementAfter(rq, h) ==
    LET c == rq.c
        called == Log([rq EXCEPT !.stack = AdvanceIp(rq.stack)],
                      Ev("nextCall", rq.stack[Len(rq.stack)].pos, c.curMW))
    IN  IF c.curMW >= c.middlewares.len
        THEN Log(called, Ev("nextRet", c.curMW, 0))
        ELSE Log([called EXCEPT !.stack = Append(called.stack,
                        [pos |-> c.curMW, unit |-> h[c.middlewares.arr][c.curMW + 1],
                         ip |-> 1, found |-> c.curMW])],
                 Ev("invoke", c.curMW, c.curMW))

\* c.Next() called by the frame on top: nothing at the end of the chain, else
\* the cursor moves and the unit is invoked (a frame is pushed)
Next(rq, h) ==
    LET c == rq.c
        called == Log([rq EXCEPT !.stack = AdvanceIp(rq.stack)],
                      Ev("nextCall", Top(rq).pos, c.curMW))
    IN  IF c.curMW >= c.middlewares.len
        THEN Log(called, Ev("nextRet", c.curMW, 0))
        ELSE LET cur == c.curMW + 1
                 unit == UnitAt(h, c.middlewares, InvokedIndex(cur))
                 moved == [called EXCEPT !.c.curMW = cur]
             IN  IF unit \in {Nil, "outOfRange"}
                 THEN Raise(moved, InvokedIndex(cur))
                 ELSE Log([moved EXCEPT !.stack = Append(called.stack,
                                   [pos |-> InvokedIndex(cur), unit |-> unit,
                                    ip |-> 1, found |-> c.curMW])],
                          Ev("invoke", InvokedIndex(cur), cur))

\* a Next that goes on to the following unit when the invoked one returns
NextReturnLoop(rq, h) ==
    LET f == Top(rq)
        popped == Log([rq EXCEPT !.stack = SubSeq(rq.stack, 1, Len(rq.stack) - 1)],
                      Ev("unitRet", f.pos, 0))
    IN  IF rq.c.curMW < rq.c.middlewares.len
        THEN LET cur == rq.c.curMW + 1
                 unit == UnitAt(h, rq.c.middlewares, InvokedIndex(cur))
             IN  Log([popped EXCEPT !.c.curMW = cur,
                                    !.stack = Append(popped.stack,
                                       [pos |-> InvokedIndex(cur), unit |-> unit,
                                        ip |-> 1, found |-> f.found])],
                     Ev("invoke", InvokedIndex(cur), cur))
        ELSE Log(popped, Ev("nextRet", f.found, 1))

\* the invoked unit returns and the Next that invoked it returns true
NextReturn(rq, h) ==
    LET f == Top(rq)
    IN  Log(Log([rq EXCEPT !.stack = SubSeq(rq.stack, 1, Len(rq.stack) - 1)],
                Ev("unitRet", f.pos, 0)),
            Ev("nextRet", f.found, 1))

\* a unit writes the response
UnitWrite(rq) ==
    Log(WriteHeader([rq EXCEPT !.stack = AdvanceIp(rq.stack)], 200),
        Ev("write", Top(rq).pos, 0))

\* a recover that runs the chain again after a panic
RecoverRetry(rq) ==
    IF rq.panicking
    THEN Log([rq EXCEPT !.panicking = FALSE, !.pc = "run", !.c.curMW = 0,
                        !.stack = <<[pos |-> -1, unit |-> "ServeHTTP", ip |-> 1,
                                     found |-> -1]>>],
             Ev("critical", 0, 0))
    ELSE [rq EXCEPT !.pc = "deferTrace"]

\* the deferred recover of ServeHTTP is left out
RecoverMutant(rq) == [rq EXCEPT !.pc = "deferTrace"]

\* the deferred recover of ServeHTTP: a panic is logged and stops here
Recover(rq) ==
    IF rq.panicking
    THEN Log([rq EXCEPT !.panicking = FALSE, !.pc = "deferTrace"],
             Ev("critical", 0, 0))
    ELSE [rq EXCEPT !.pc = "deferTrace"]

\* the response trace written at the end of the function instead of deferred
DeferTraceNotDeferred(rq) ==
    IF rq.faulted
    THEN [rq EXCEPT !.header = rq.header \cup {"LogId"}, !.pc = "done"]
    ELSE Log([rq EXCEPT !.header = rq.header \cup {"LogId"}, !.pc = "done"],
             Ev("respTrace", 0, 0))

\* the deferred function of the entry: the log id header, the response trace
DeferTrace(rq) ==
    Log([rq EXCEPT !.header = rq.header \cup {"LogId"}, !.pc = "done"],
        Ev("respTrace", 0, 0))

(***************************************************************************)
(* The engine-level middleware variant (server.go): the middlewares are a  *)
(* linked list of the engine, a route has a handler only                   *)
(***************************************************************************)
\* the calls of AppendMiddleware explored
MaxMW == 2

\* the nesting of invocations at which the goroutine's stack is exhausted
MaxDepth == 3

NewEngine ==
    [r |-> <<>>, middlewares |-> <<>>, allowedMethods |-> [s |-> <<>>, str |-> <<>>]]

\* the list e.middlewares is the sequence of its handlers; a *middleware is
\* an index into it, and nil the index after the last
IsNilMW(en, p) == p > Len(en.middlewares)

\* the handler goes to the tail of the list
AppendMiddleware(en, handler) == [en EXCEPT !.middlewares = Append(@, handler)]

EngineRegister(en, method, path, handle) ==
    [en EXCEPT !.r = RouterRegister(@, method, path, handle),
               !.allowedMethods = AddMethod(@, method)]

\* e.r.GetHandler and what ServeHTTP does with its result
GetHandlerStep(rq, en) ==
    LET l == Lookup(en.r, rq.method, rq.path)
    IN  IF l.found
        THEN [rq EXCEPT !.c = [curMW |-> 1, handler |-> l.value,
                               pathParam |-> l.urlParams],
                        !.stack = <<[pos |-> -1, unit |-> "ServeHTTP", ip |-> 1,
                                     found |-> -1]>>,
                        !.outcome = "chain",
                        !.pc = "run"]
        ELSE IF ~l.redirect
        THEN WriteHeader([rq EXCEPT !.outcome = "404", !.pc = "deferTrace"],
                         StatusNotFound)
        ELSE Redirect([rq EXCEPT !.path = Toggle(rq.path), !.outcome = "tsr308",
                                 !.pc = "deferTrace"],
                      StatusPermanentRedirect)

\* c.Next() of the engineContext called by the frame on top: the route's
\* handler is invoked when the cursor is nil, else the middleware under the
\* cursor, the cursor staying where it is until that middleware returns.
\* An invocation nested deeper than the stack allows is fatal to the process.
EngineContextNext(rq, en) ==
    LET c == rq.c
        called == Log([rq EXCEPT !.stack = AdvanceIp(rq.stack)],
                      Ev("nextCall", Top(rq).pos, c.curMW))
    IN  IF IsNilMW(en, c.curMW)
        THEN Log([called EXCEPT !.stack = Append(called.stack,
                        [pos |-> 0, unit |-> c.handler, ip |-> 1, found |-> c.curMW])],
                 Ev("handler", 0, c.curMW))
        ELSE IF Len(rq.stack) > MaxDepth
        THEN Log([called EXCEPT !.pc = "crashed", !.outcome = "stackOverflow"],
                 Ev("fatal", c.curMW, 0))
        ELSE Log([called EXCEPT !.stack = Append(called.stack,
                        [pos |-> c.curMW, unit |-> en.middlewares[c.curMW],
                         ip |-> 1, found |-> c.curMW])],
                 Ev("invoke", c.curMW, c.curMW))

\* the invoked function returns to the Next that invoked it: after the
\* handler Next returns false; after a middleware the cursor moves to
\* c.curMW.next (a nil cursor cannot be dereferenced) and Next returns true
EngineContextNextReturn(rq, en) ==
    LET f == Top(rq)
        popped == Log([rq EXCEPT !.stack = SubSeq(rq.stack, 1, Len(rq.stack) - 1)],
                      Ev("unitRet", f.pos, 0))
    IN  IF f.pos = 0
        THEN Log(popped, Ev("nextRet", f.found, 0))
        ELSE IF IsNilMW(en, rq.c.curMW)
        THEN Raise(popped, f.pos)
        ELSE Log([popped EXCEPT !.c.curMW = @ + 1], Ev("nextRet", f.found, 1))

\* the middlewares, routes and requests explored
MWUnits == {"L", "A", "P"}

RoutePool ==
    { [method |-> GET,  path |-> <<"/", "a">>,      handle |-> "A"],
      [method |-> POST, path |-> <<"/", "a">>,      handle |-> "G"],
      [method |-> GET,  path |-> <<"/", "b", "/">>, handle |-> "P"] }

MWReqMethods == {GET, POST, DELETE}

MWReqPaths == { <<>>, <<"/", "a">>, <<"/", "a", "/">>, <<"/", "b">>, <<"/", "z">> }

MWInit == [e |-> NewEngine, serving |-> FALSE, rq |-> IdleReq]

(***************************************************************************)
(* Requests served concurrently: net/http calls ServeHTTP in a goroutine   *)
(* per request, every call building its own reqContext                     *)
(***************************************************************************)
\* the requests in progress at the same time
NumReqs == 2

ReqIds == 1..NumReqs

\* the routes and the requests explored together
ConcNodePool ==
    { MkNode(GET, <<"/", "a">>, mwSpare, "H"),
      MkNode(GET, <<"/", "p">>, mwLM, "P") }

ConcInputs ==
    { <<GET, <<"/", "a">> >>, <<GET, <<"/", "p">> >>, <<GET, <<"/", "a", "/">> >>,
      <<DELETE, <<"/", "a">> >>, <<GET, <<>> >> }

ConcInit ==
    [e |-> EmptyEngine, heap |-> InitHeap, serving |-> FALSE,
     rq |-> [i \in ReqIds |-> IdleReq]]

\* a context per route instead of per request: the cursor moved by one
\* request is the cursor of every request running the same chain
CtxNextShared(rs, i, h) ==
    LET moved == Next(rs[i], h)
    IN  [j \in DOMAIN rs |->
           IF j = i THEN moved
           ELSE IF rs[j].pc = "run" /\ rs[j].c.middlewares = rs[i].c.middlewares
           THEN [rs[j] EXCEPT !.c.curMW = moved.c.curMW]
           ELSE rs[j]]

\* c.Next() in request i: c is the reqContext built by that ServeHTTP call
CtxNext(rs, i, h) == [rs EXCEPT ![i] = Next(rs[i], h)]

\* the next step of a request served on its own
StepAlone(rq, h, en) ==
    IF rq.pc = "gate" THEN MethodGate(rq, en)
    ELSE IF rq.pc = "emptyPath" THEN EmptyPath(rq, RootPath)
    ELSE IF rq.pc = "lookup" THEN LookupStep(rq, en)
    ELSE IF rq.pc = "deferRecover" THEN Recover(rq)
    ELSE IF rq.pc = "deferTrace" THEN DeferTrace(rq)
    ELSE IF rq.pc # "run" THEN rq
    ELSE IF Top(rq).ip > Len(FrameScript(Top(rq)))
    THEN IF Top(rq).pos >= 0 THEN NextReturn(rq, h)
         ELSE [rq EXCEPT !.stack = <<>>, !.pc = "deferRecover"]
    ELSE IF FrameScript(Top(rq))[Top(rq).ip] = "next" THEN Next(rq, h)
    ELSE IF FrameScript(Top(rq))[Top(rq).ip] = "write" THEN UnitWrite(rq)
    ELSE Raise(rq, Top(rq).pos)

RECURSIVE AloneStates(_, _, _)
\* the states a request goes through when it is served on its own
AloneStates(rq, h, en) ==
    IF rq.pc = "done" THEN {rq}
    ELSE {rq} \cup AloneStates(StepAlone(rq, h, en), h, en)

(***************************************************************************)
(* The state machine                                                       *)
(***************************************************************************)
Init ==
    /\ heap = InitHeap
    /\ e = EmptyEngine
    /\ regLog = <<>>
    /\ fatal = FALSE
    /\ serving = FALSE
    /\ req = IdleReq
    /\ prev = NoPrev
    /\ mw = MWInit
    /\ reqs = ConcInit

CanRegister == ~fatal /\ ~serving /\ NumCalls(regLog) < MaxRegs

DoRegister ==
    /\ CanRegister
    /\ \E node \in NodePool :
         LET reg == Register(heap, e, node)
         IN  /\ ~reg.panicked
             /\ heap' = reg.heap
             /\ e' = reg.e
             /\ regLog' = Append(regLog,
                     Passed(heap, node, NilSlice, <<>>, FALSE, NumCalls(regLog) + 1))
    /\ UNCHANGED <<mw, reqs, fatal, serving, req, prev>>

DoRegisterGroup ==
    /\ CanRegister
    /\ \E group \in GroupPool :
         LET reg == RegisterGroup(heap, e, group, regLog)
         IN  /\ ~reg.panicked
             /\ heap' = reg.heap
             /\ e' = reg.e
             /\ regLog' = reg.log
    /\ UNCHANGED <<mw, reqs, fatal, serving, req, prev>>

\* Register panics: "middleware or handle of a node is nil"
RegisterPanics ==
    /\ CanRegister
    /\ \E node \in NodePool :
         LET reg == Register(heap, e, node)
         IN  /\ reg.panicked
             /\ heap' = reg.heap
             /\ e' = reg.e
    /\ fatal' = TRUE
    /\ UNCHANGED <<mw, reqs, regLog, serving, req, prev>>

ServeHTTP_Begin ==
    /\ ~fatal
    /\ req.pc = "idle"
    /\ \E method \in ReqMethods, path \in ReqPaths :
         req' = ServeBegin(heap, e, method, path)
    /\ serving' = TRUE
    /\ UNCHANGED <<mw, reqs, heap, e, regLog, fatal, prev>>

ServeHTTP_MethodGate ==
    /\ req.pc = "gate"
    /\ req' = MethodGate(req, e)
    /\ UNCHANGED <<mw, reqs, heap, e, regLog, fatal, serving, prev>>

ServeHTTP_EmptyPath ==
    /\ req.pc = "emptyPath"
    /\ \E t \in EmptyPathTargets : req' = EmptyPath(req, t)
    /\ UNCHANGED <<mw, reqs, heap, e, regLog, fatal, serving, prev>>

ServeHTTP_Lookup ==
    /\ req.pc = "lookup"
    /\ req' = LookupStep(req, e)
    /\ UNCHANGED <<mw, reqs, heap, e, regLog, fatal, serving, prev>>

Running(op) ==
    /\ req.pc = "run"
    /\ Top(req).ip <= Len(FrameScript(Top(req)))
    /\ FrameScript(Top(req))[Top(req).ip] = op

Context_Next ==
    /\ Running("next")
    /\ req' = Next(req, heap)
    /\ UNCHANGED <<mw, reqs, heap, e, regLog, fatal, serving, prev>>

Unit_Write ==
    /\ Running("write")
    /\ req' = UnitWrite(req)
    /\ UNCHANGED <<mw, reqs, heap, e, regLog, fatal, serving, prev>>

Unit_Panic ==
    /\ Running("panic")
    /\ req' = Raise(req, Top(req).pos)
    /\ UNCHANGED <<mw, reqs, heap, e, regLog, fatal, serving, prev>>

Unit_Return ==
    /\ req.pc = "run"
    /\ Top(req).pos >= 0
    /\ Top(req).ip > Len(FrameScript(Top(req)))
    /\ req' = NextReturn(req, heap)
    /\ UNCHANGED <<mw, reqs, heap, e, regLog, fatal, serving, prev>>

\* the return of ServeHTTP after the chain: the deferred functions run
ServeHTTP_ChainReturn ==
    /\ req.pc = "run"
    /\ Top(req).pos = -1
    /\ Top(req).ip > Len(FrameScript(Top(req)))
    /\ req' = [req EXCEPT !.stack = <<>>, !.pc = "deferRecover"]
    /\ UNCHANGED <<mw, reqs, heap, e, regLog, fatal, serving, prev>>

ServeHTTP_Recover ==
    /\ req.pc = "deferRecover"
    /\ req' = Recover(req)
    /\ UNCHANGED <<mw, reqs, heap, e, regLog, fatal, serving, prev>>

ServeHTTP_DeferTrace ==
    /\ req.pc = "deferTrace"
    /\ req' = DeferTrace(req)
    /\ UNCHANGED <<mw, reqs, heap, e, regLog, fatal, serving, prev>>

\* ServeHTTP has returned; the server is ready for the next request
ServeHTTP_Done ==
    /\ req.pc = "done"
    /\ ~req.panicking
    /\ req' = IdleReq
    /\ prev' = IF req.faulted
               THEN [faulted |-> TRUE, method |-> req.method, path |-> req.origPath,
                     status |-> req.status, trace |-> req.trace,
                     before |-> req.before]
               ELSE prev
    /\ UNCHANGED <<mw, reqs, heap, e, regLog, fatal, serving>>

Next_ ==
    \/ DoRegister
    \/ DoRegisterGroup
    \/ RegisterPanics
    \/ ServeHTTP_Begin
    \/ ServeHTTP_MethodGate
    \/ ServeHTTP_EmptyPath
    \/ ServeHTTP_Lookup
    \/ Context_Next
    \/ Unit_Write
    \/ Unit_Panic
    \/ Unit_Return
    \/ ServeHTTP_ChainReturn
    \/ ServeHTTP_Recover
    \/ ServeHTTP_DeferTrace
    \/ ServeHTTP_Done

Spec == Init /\ [][Next_]_vars

\* the steps of a request that has begun; the goroutine serving it is
\* scheduled until ServeHTTP returns
ServeStep ==
    \/ ServeHTTP_MethodGate
    \/ ServeHTTP_EmptyPath
    \/ ServeHTTP_Lookup
    \/ Context_Next
    \/ Unit_Write
    \/ Unit_Panic
    \/ Unit_Return
    \/ ServeHTTP_ChainReturn
    \/ ServeHTTP_Recover
    \/ ServeHTTP_DeferTrace

SpecFair == Spec /\ WF_vars(ServeStep)

(***************************************************************************)
(* Vocabulary of the properties                                            *)
(***************************************************************************)
Events(rq, name) == SelectSeq(rq.trace, LAMBDA ev : ev.e = name)

\* the positions invoked so far, in the order of invocation
Invoked(rq) == [i \in 1..Len(Events(rq, "invoke")) |-> Events(rq, "invoke")[i].pos]

\* the chain a matched request runs
Chain(rq) == Contents(heap, rq.c.middlewares)

Matched(rq) == rq.outcome = "chain"

NextCalls(u) == Cardinality({i \in 1..Len(Script(u)) : Script(u)[i] = "next"})

Panics(u) == \E i \in 1..Len(Script(u)) : Script(u)[i] = "panic"

EachCallsNextOnce(ch) ==
    \A i \in 1..Len(ch) : NextCalls(ch[i]) = 1 /\ ~Panics(ch[i])

\* the index in the trace of the only event of that name and position
IndexOf(rq, name, pos) ==
    CHOOSE i \in 1..Len(rq.trace) : rq.trace[i].e = name /\ rq.trace[i].pos = pos

Elems(s) == {s[i] : i \in 1..Len(s)}

StrMin(S) == CHOOSE x \in S : \A y \in S : y = x \/ StrLess(x, y)

RECURSIVE SortedSeqOf(_)
\* the elements of a set of strings in ascending order
SortedSeqOf(S) ==
    IF S = {} THEN <<>> ELSE <<StrMin(S)>> \o SortedSeqOf(S \ {StrMin(S)})

RegisteredMethods == {regLog[i].Method : i \in 1..Len(regLog)}

\* the last registration of each (method, path)
LastOfKey(i) ==
    \A j \in (i + 1)..Len(regLog) :
        <<regLog[j].Method, regLog[j].Path>> # <<regLog[i].Method, regLog[i].Path>>

DistinctKeys ==
    \A i, j \in 1..Len(regLog) :
        i # j => <<regLog[j].Method, regLog[j].Path>> # <<regLog[i].Method, regLog[i].Path>>

\* the route of a registration holds the chain and the path that were passed
StoredAsPassed(i) ==
    LET k == <<regLog[i].Method, regLog[i].Path>>
    IN  /\ k \in DOMAIN e.r
        /\ ChainOf(heap, e.r[k]) = regLog[i].chain
        /\ e.r[k].matchPath = regLog[i].Path

\* the path with its trailing slash toggled, as the property words it
SlashToggled(p) ==
    IF Len(p) > 0 /\ p[Len(p)] = "/" THEN SubSeq(p, 1, Len(p) - 1) ELSE p \o <<"/">>

(***************************************************************************)
(* C1: the Next protocol when every unit calls Next() exactly once         *)
(***************************************************************************)
\* The statement with the invoked position left open: Idx(c) is the position
\* of the unit invoked by the Next() call that moves the cursor to c.
NextProtocol(Idx(_)) ==
    (Matched(req) /\ EachCallsNextOnce(Chain(req))) =>
      LET L == Len(Chain(req))
          tr == req.trace
      IN  /\ req.c.curMW \in 0..L
          /\ (Len(Events(req, "nextCall")) = 0 => req.c.curMW = 0)
          /\ \A i \in 1..Len(tr) :
               /\ tr[i].e = "invoke" =>
                    /\ tr[i - 1].e = "nextCall"
                    /\ tr[i - 1].val < L
                    /\ tr[i].val = tr[i - 1].val + 1
                    /\ tr[i].pos = Idx(tr[i].val)
               /\ (tr[i].e = "nextCall" /\ tr[i].val < L /\ i < Len(tr)) =>
                    tr[i + 1].e = "invoke"
               /\ (tr[i].e = "nextCall" /\ tr[i].val >= L) =>
                    /\ tr[i].val = L
                    /\ i < Len(tr)
                    /\ tr[i + 1] = Ev("nextRet", L, 0)
               /\ tr[i].e = "nextRet" => (tr[i].val = 1 <=> tr[i].pos < L)
          /\ req.pc = "done" =>
               /\ ~req.faulted
               /\ req.c.curMW = L
               /\ Invoked(req) = [i \in 1..L |-> i - 1]
               /\ Len(SelectSeq(tr, LAMBDA ev : ev.e = "nextCall" /\ ev.pos = -1)) = 1
               /\ Len(Events(req, "nextCall")) = L + 1
               /\ \A c \in 0..(L - 1) :
                    Len(SelectSeq(tr, LAMBDA ev : ev = Ev("nextRet", c, 1))) = 1
               /\ Len(SelectSeq(tr, LAMBDA ev : ev = Ev("nextRet", L, 0))) = 1
               /\ \A p \in 0..(L - 2) :
                    IndexOf(req, "invoke", p + 1) < IndexOf(req, "unitRet", p)

\* C1 as claimed: the cursor starts at 0, every Next() that finds the cursor
\* below L moves it by one, invokes the unit at the NEW cursor position and
\* returns true; the units run once each in the order 0..L-1, nested; the
\* handler's Next() finds L, does nothing and returns false; the cursor ends at L.
C1_Original == NextProtocol(LAMBDA c : c)

\* C1 amended: the same, the unit invoked being the one at the position the
\* cursor had BEFORE the move (index new cursor - 1).
C1_NextProtocol == NextProtocol(LAMBDA c : c - 1)

C1_Witness ==
    /\ req.pc = "done"
    /\ Matched(req)
    /\ Chain(req) = <<"L", "M", "H">>
    /\ Invoked(req) = <<0, 1, 2>>
    /\ req.c.curMW = 3

(***************************************************************************)
(* C2: short-circuit                                                       *)
(***************************************************************************)
\* C2: when the units before position i call Next() at most once and the unit
\* at i has been invoked and returns without calling Next(), no unit after i
\* is invoked, and ServeHTTP returns normally.
C2_ShortCircuit ==
    /\ Matched(req) =>
         \A i \in 0..(Len(Chain(req)) - 1) :
            ( /\ \E n \in 1..Len(Invoked(req)) : Invoked(req)[n] = i
              /\ NextCalls(Chain(req)[i + 1]) = 0
              /\ ~Panics(Chain(req)[i + 1])
              /\ \A j \in 0..(i - 1) : NextCalls(Chain(req)[j + 1]) <= 1 )
            => \A n \in 1..Len(Invoked(req)) : Invoked(req)[n] <= i
    /\ req.pc = "done" => ~req.panicking

C2_Witness ==
    /\ req.pc = "done"
    /\ Matched(req)
    /\ Chain(req) = <<"A", "L", "G">>
    /\ Invoked(req) = <<0>>
    /\ req.status = 200

(***************************************************************************)
(* C3: the method gate                                                     *)
(***************************************************************************)
\* C3: a request whose method is not in the allowed methods gets 405 with the
\* Allow header equal to the sorted, comma-joined set of the registered
\* methods, whatever its path; the value depends on the set of methods only,
\* so registering a method again does not change it.
C3_MethodGate ==
    /\ e.allowedMethods.str = Join(SortedSeqOf(RegisteredMethods), <<Comma>>)
    /\ (req.pc \notin {"idle", "gate"} /\ req.method \notin RegisteredMethods) =>
         /\ req.outcome = "405"
         /\ req.status = StatusMethodNotAllowed
         /\ "Allow" \in req.sentHeader
         /\ req.sentAllow = Join(SortedSeqOf(RegisteredMethods), <<Comma>>)
         /\ Len(Events(req, "lookup")) = 0
    /\ req.outcome = "405" => req.method \notin RegisteredMethods

C3_Witness ==
    /\ req.pc = "done"
    /\ req.outcome = "405"
    /\ req.method = PUT
    /\ req.origPath = <<"/", "a">>
    /\ Len(regLog) = 2 /\ regLog[1].Method = POST /\ regLog[2].Method = GET
    /\ regLog[1].Path = <<"/", "a">>
    /\ req.sentAllow = GET \o <<Comma>> \o POST

(***************************************************************************)
(* C4: fault containment                                                   *)
(***************************************************************************)
\* C4: a panic of a chain unit is recovered inside ServeHTTP, which returns
\* normally; the routes, the allowed methods, their joined string and the
\* chains are what they were before the request, also during every later
\* request, and the same request served again ends the same way.
C4_FaultContainment ==
    /\ req.pc = "done" => ~req.panicking
    /\ req.faulted => (e = req.before.e /\ heap = req.before.heap)
    /\ prev.faulted => (e = prev.before.e /\ heap = prev.before.heap)
    /\ (prev.faulted /\ req.pc = "done" /\ req.method = prev.method
          /\ req.origPath = prev.path) =>
         (req.status = prev.status /\ req.trace = prev.trace)

C4_Witness ==
    /\ prev.faulted
    /\ req.pc = "done"
    /\ req.faulted
    /\ req.method = prev.method
    /\ req.origPath = prev.path
    /\ Len(Events(req, "critical")) = 1

(***************************************************************************)
(* C5: group flattening                                                    *)
(***************************************************************************)
\* C5: after RegisterGroup, every child of the group has its route, whose
\* chain is the group's middlewares, then the child's, then the child's
\* handler, and whose match path is the group's root path followed by the
\* child's path: for all the children at once, whatever the spare capacity of
\* the group's middleware slice.
C5_GroupFlattening ==
    \A i \in 1..Len(regLog) :
        (regLog[i].group /\ LastOfKey(i)) => StoredAsPassed(i)

(***************************************************************************)
(* C6: registered chains are immutable                                     *)
(***************************************************************************)
\* C6: after Register calls with pairwise distinct (method, path), every route
\* holds the middlewares passed at its registration followed by the handler
\* passed, and no later Register or RegisterGroup call changes it.
C6_ChainsImmutable ==
    DistinctKeys =>
        \A i \in 1..Len(regLog) : ~regLog[i].group => StoredAsPassed(i)

(***************************************************************************)
(* C7: the allowed methods                                                 *)
(***************************************************************************)
\* C7: the method list is strictly ascending, holds exactly the methods of the
\* registered routes, never loses a method in a step, and the Allow string is
\* its comma-join.
C7_AllowedMethods ==
    /\ [](/\ \A i \in 1..(Len(e.allowedMethods.s) - 1) :
               StrLess(e.allowedMethods.s[i], e.allowedMethods.s[i + 1])
          /\ Elems(e.allowedMethods.s) = {k[1] : k \in DOMAIN e.r}
          /\ e.allowedMethods.str = Join(e.allowedMethods.s, <<Comma>>))
    /\ [][Elems(e.allowedMethods.s) \subseteq Elems(e.allowedMethods.s')]_vars

C7_Witness ==
    /\ e.allowedMethods.s = <<GET, POST, PUT>>
    /\ regLog[1].Method = PUT

(***************************************************************************)
(* C8: the correlation header                                              *)
(***************************************************************************)
\* C8: on every outcome the log id header is set no later than the step that
\* writes the status and the headers of the response.
C8_LogIdHeader == req.status # 0 => "LogId" \in req.sentHeader

(***************************************************************************)
(* C9: the trailing-slash redirect                                         *)
(***************************************************************************)
\* C9: an allowed method and a non-empty path p with no value and a redirect
\* candidate get a 308 to p with its trailing slash toggled, no unit being
\* invoked; and toggling twice gives p back, for "/" too.
C9_TrailingSlash ==
    /\ (req.pc = "done" /\ req.method \in Elems(e.allowedMethods.s)
          /\ req.origPath # <<>>
          /\ ~Lookup(e.r, req.method, req.origPath).found
          /\ Lookup(e.r, req.method, req.origPath).redirect) =>
         req.outcome = "tsr308"
    /\ req.outcome = "tsr308" =>
         /\ req.status = StatusPermanentRedirect
         /\ req.target = SlashToggled(req.origPath)
         /\ Len(Events(req, "invoke")) = 0
         /\ Toggle(Toggle(req.origPath)) = req.origPath

(***************************************************************************)
(* C10: the empty path                                                     *)
(***************************************************************************)
\* C10: an allowed method with the empty path gets a 308 to the root path,
\* with no lookup and no unit invoked; the target is not empty, and a request
\* whose path is not empty (one for the rewritten path among them) never
\* takes this redirect.
C10_EmptyPath ==
    /\ (req.pc \notin {"idle", "gate", "emptyPath"} /\ req.origPath = <<>>
          /\ req.method \in Elems(e.allowedMethods.s)) =>
         req.outcome = "empty308"
    /\ req.outcome = "empty308" =>
         /\ req.origPath = <<>>
         /\ req.status = StatusPermanentRedirect
         /\ req.target \in EmptyPathTargets
         /\ req.target # <<>>
         /\ "Location" \in req.sentHeader
         /\ Len(Events(req, "lookup")) = 0
         /\ Len(Events(req, "invoke")) = 0
    /\ req.origPath \in EmptyPathTargets => req.outcome # "empty308"

C10_Witness ==
    /\ req.pc = "done"
    /\ req.outcome = "empty308"
    /\ req.method = PUT
    /\ req.target = RootPath

(***************************************************************************)
(* C11: Register and nil units                                             *)
(***************************************************************************)
\* C11: Register panics exactly when the handler or a middleware of the node
\* is nil; a call that panics leaves the router, the allowed methods and
\* their joined string as they were; so no chain that a lookup can return
\* holds a nil unit.
C11_RegisterNil ==
    /\ [](\A node \in NodePool :
            Register(heap, e, node).panicked <=>
               (node.Handler = Nil \/ Nil \in Elems(Contents(heap, node.Middlewares))))
    /\ [][(fatal' /\ ~fatal) => e' = e]_vars
    /\ [](\A k \in DOMAIN e.r : Nil \notin Elems(ChainOf(heap, e.r[k])))

(***************************************************************************)
(* C12: the engine's own answers bypass the chain                          *)
(***************************************************************************)
EngineOutcomes == {"405", "404", "empty308", "tsr308"}

\* C12: a request answered 405, 404 or 308 gets no context and no unit is
\* invoked; a context exists and units run only when the lookup returned a
\* value for the exact (method, path) of the request.
C12_EngineShortCircuits ==
    /\ req.outcome \in EngineOutcomes =>
         /\ req.c = NoContext
         /\ req.stack = <<>>
         /\ Len(Events(req, "invoke")) = 0
         /\ Len(Events(req, "nextCall")) = 0
    /\ (req.c # NoContext \/ Len(Events(req, "invoke")) > 0) =>
         /\ Matched(req)
         /\ req.path = req.origPath
         /\ <<req.method, req.origPath>> \in DOMAIN e.r
         /\ req.c.middlewares = e.r[<<req.method, req.origPath>>].middlewares

C12_Witness ==
    /\ req.pc = "done"
    /\ req.outcome = "tsr308"
    /\ req.method = GET
    /\ req.origPath = <<"/", "a", "/">>
    /\ ChainOf(heap, e.r[<<GET, <<"/", "a">>>>]) = <<"L", "H">>

(***************************************************************************)
(* C13: the gate looks at the method only; the order of the decisions      *)
(***************************************************************************)
Allowed(m) == m \in Elems(e.allowedMethods.s)

\* C13: an allowed method on a path it is not registered for is never
\* answered 405: it ends 308 when the path is empty, 308 when the router
\* signals a redirect candidate, else 404.  The gate comes first (a method
\* that is not allowed gets 405 even on the empty path), then the empty-path
\* check (no lookup, even when the empty path is registered), then the lookup.
C13_GateByMethodOnly ==
    /\ (req.pc \notin {"idle", "gate"} /\ Allowed(req.method)) => req.outcome # "405"
    /\ (req.pc \notin {"idle", "gate"} /\ ~Allowed(req.method)) =>
         (req.outcome = "405" /\ req.path = req.origPath
            /\ Len(Events(req, "lookup")) = 0)
    /\ (req.pc \notin {"idle", "gate", "emptyPath"} /\ Allowed(req.method)
          /\ req.origPath = <<>>) =>
         (req.outcome = "empty308" /\ Len(Events(req, "lookup")) = 0)
    /\ (req.pc = "done" /\ Allowed(req.method)
          /\ <<req.method, req.origPath>> \notin DOMAIN e.r) =>
         req.outcome = IF req.origPath = <<>> THEN "empty308"
                       ELSE IF Lookup(e.r, req.method, req.origPath).redirect
                       THEN "tsr308" ELSE "404"

C13_Witness ==
    /\ req.pc = "done"
    /\ req.outcome = "404"
    /\ req.method = POST
    /\ req.origPath = <<"/", "p">>
    /\ <<GET, <<"/", "p">>>> \in DOMAIN e.r

(***************************************************************************)
(* C14: the cursor                                                         *)
(***************************************************************************)
\* C14: the cursor stays within 0..L and never decreases, the number of
\* invocations so far equals the cursor, and the n-th invocation is that of
\* position n-1: every unit runs at most once and in order, however often a
\* unit calls Next().
C14_CursorInvariant ==
    Matched(req) =>
      LET L == Len(Chain(req))
          inv == Events(req, "invoke")
          calls == Events(req, "nextCall")
      IN  /\ req.c.curMW \in 0..L
          /\ Len(inv) = req.c.curMW
          /\ \A i \in 1..Len(inv) : inv[i].pos = i - 1 /\ inv[i].val = i
          /\ \A i \in 1..(Len(calls) - 1) : calls[i].val <= calls[i + 1].val
          /\ \A i \in 1..Len(calls) : calls[i].val <= req.c.curMW

C14_Witness ==
    /\ req.pc = "done"
    /\ Chain(req) = <<"D", "H">>
    /\ Invoked(req) = <<0, 1>>
    /\ Len(Events(req, "nextCall")) = 4
    /\ Len(SelectSeq(req.trace, LAMBDA ev : ev = Ev("nextRet", 2, 0))) = 2

(***************************************************************************)
(* C16: a fault is caught once, at the engine                              *)
(***************************************************************************)
PanicAt(rq) == CHOOSE k \in 1..Len(rq.trace) : rq.trace[k].e = "panic"

\* C16: when the unit at position i panics, no unit runs afterwards, the
\* units below i do not resume after their Next(), one critical record is
\* logged, and the response is what had been written before the fault.
C16_FaultOnce ==
    /\ req.faulted =>
         LET k == PanicAt(req)
         IN  /\ Len(Events(req, "panic")) = 1
             /\ \A n \in (k + 1)..Len(req.trace) :
                   req.trace[n].e \in {"critical", "respTrace"}
             /\ \A n \in 1..Len(Invoked(req)) : Invoked(req)[n] <= req.trace[k].pos
             /\ Len(Events(req, "unitRet")) = 0
             /\ req.stack = <<>>
             /\ Len(Events(req, "critical")) =
                   IF req.pc \in {"deferTrace", "done"} THEN 1 ELSE 0
             /\ req.status = IF \E n \in 1..k : req.trace[n].e = "write"
                             THEN 200 ELSE 0
    /\ ~req.faulted => Len(Events(req, "critical")) = 0

C16_Witness ==
    /\ req.pc = "done"
    /\ req.faulted
    /\ Chain(req) = <<"L", "M", "P">>
    /\ Invoked(req) = <<0, 1, 2>>
    /\ req.status = 0

(***************************************************************************)
(* C19: the request and response traces                                    *)
(***************************************************************************)
\* C19: one request trace, before the gate; one response trace, the last
\* thing ServeHTTP does, on every outcome; after a panic the critical record
\* comes before the response trace.
C19_TraceBracketing ==
    /\ req.pc # "idle" =>
         /\ req.trace[1] = Ev("reqTrace", 0, 0)
         /\ Len(Events(req, "reqTrace")) = 1
    /\ req.pc = "gate" => Len(req.trace) = 1
    /\ req.pc \notin {"idle", "done"} => Len(Events(req, "respTrace")) = 0
    /\ req.pc = "done" =>
         /\ req.outcome \in EngineOutcomes \cup {"chain"}
         /\ req.trace[Len(req.trace)] = Ev("respTrace", 0, 0)
         /\ Len(Events(req, "respTrace")) = 1
         /\ req.faulted => req.trace[Len(req.trace) - 1] = Ev("critical", 0, 0)

C19_Witness ==
    /\ req.pc = "done"
    /\ req.faulted
    /\ req.trace[Len(req.trace) - 1].e = "critical"
    /\ req.trace[Len(req.trace)].e = "respTrace"

(***************************************************************************)
(* C17: dispatch terminates                                                *)
(***************************************************************************)
\* C17: every request that has begun reaches the return of ServeHTTP, with
\* exactly one of the outcomes 405, empty-path 308, chain, 404,
\* trailing-slash 308 (the status written by the engine says which); a
\* matched request invokes at most L units and never nests deeper than L.
C17_Termination ==
    /\ [](Matched(req) =>
            /\ Len(Events(req, "invoke")) <= Len(Chain(req))
            /\ Len(req.stack) <= Len(Chain(req)) + 1)
    /\ [](req.pc = "done" =>
            /\ req.outcome \in EngineOutcomes \cup {"chain"}
            /\ req.outcome = "405" <=> req.status = StatusMethodNotAllowed
            /\ req.outcome = "404" <=> req.status = StatusNotFound
            /\ req.outcome \in {"empty308", "tsr308"} <=>
                  req.status = StatusPermanentRedirect
            /\ req.outcome = "empty308" => req.origPath = <<>>
            /\ req.outcome = "tsr308" => req.origPath # <<>>
            /\ req.outcome = "chain" <=> req.c # NoContext)
    /\ (req.pc = "gate") ~> (req.pc = "done")

C17_Witness ==
    /\ req.pc = "done"
    /\ Chain(req) = <<"D", "H">>
    /\ Len(Events(req, "invoke")) = 2
    /\ Len(Events(req, "nextCall")) = 4
    /\ Len(Events(req, "unitRet")) = 2

(***************************************************************************)
(* The state machine of the engine-level middleware variant                *)
(***************************************************************************)
MW_AppendMiddleware ==
    /\ ~mw.serving
    /\ Len(mw.e.middlewares) < MaxMW
    /\ \E u \in MWUnits : mw' = [mw EXCEPT !.e = AppendMiddleware(mw.e, u)]
    /\ UNCHANGED <<mainVars, reqs>>

MW_Register ==
    /\ ~mw.serving
    /\ \E rt \in RoutePool :
         /\ <<rt.method, rt.path>> \notin DOMAIN mw.e.r
         /\ mw' = [mw EXCEPT !.e = EngineRegister(mw.e, rt.method, rt.path, rt.handle)]
    /\ UNCHANGED <<mainVars, reqs>>

MW_Begin ==
    /\ mw.rq.pc = "idle"
    /\ \E method \in MWReqMethods, path \in MWReqPaths :
         mw' = [mw EXCEPT !.serving = TRUE,
                          !.rq = ServeBegin(<<>>, EmptyEngine, method, path)]
    /\ UNCHANGED <<mainVars, reqs>>

MW_MethodGate ==
    /\ mw.rq.pc = "gate"
    /\ mw' = [mw EXCEPT !.rq = MethodGate(mw.rq, mw.e)]
    /\ UNCHANGED <<mainVars, reqs>>

MW_EmptyPath ==
    /\ mw.rq.pc = "emptyPath"
    /\ mw' = [mw EXCEPT !.rq = EmptyPath(mw.rq, IndexPath)]
    /\ UNCHANGED <<mainVars, reqs>>

MW_GetHandler ==
    /\ mw.rq.pc = "lookup"
    /\ mw' = [mw EXCEPT !.rq = GetHandlerStep(mw.rq, mw.e)]
    /\ UNCHANGED <<mainVars, reqs>>

MWRunning(op) ==
    /\ mw.rq.pc = "run"
    /\ Top(mw.rq).ip <= Len(FrameScript(Top(mw.rq)))
    /\ FrameScript(Top(mw.rq))[Top(mw.rq).ip] = op

MW_Next ==
    /\ MWRunning("next")
    /\ mw' = [mw EXCEPT !.rq = EngineContextNext(mw.rq, mw.e)]
    /\ UNCHANGED <<mainVars, reqs>>

MW_Write ==
    /\ MWRunning("write")
    /\ mw' = [mw EXCEPT !.rq = UnitWrite(mw.rq)]
    /\ UNCHANGED <<mainVars, reqs>>

MW_Panic ==
    /\ MWRunning("panic")
    /\ mw' = [mw EXCEPT !.rq = Raise(mw.rq, Top(mw.rq).pos)]
    /\ UNCHANGED <<mainVars, reqs>>

MW_Return ==
    /\ mw.rq.pc = "run"
    /\ Top(mw.rq).pos >= 0
    /\ Top(mw.rq).ip > Len(FrameScript(Top(mw.rq)))
    /\ mw' = [mw EXCEPT !.rq = EngineContextNextReturn(mw.rq, mw.e)]
    /\ UNCHANGED <<mainVars, reqs>>

MW_ChainReturn ==
    /\ mw.rq.pc = "run"
    /\ Top(mw.rq).pos = -1
    /\ Top(mw.rq).ip > Len(FrameScript(Top(mw.rq)))
    /\ mw' = [mw EXCEPT !.rq = [mw.rq EXCEPT !.stack = <<>>, !.pc = "deferRecover"]]
    /\ UNCHANGED <<mainVars, reqs>>

MW_Recover ==
    /\ mw.rq.pc = "deferRecover"
    /\ mw' = [mw EXCEPT !.rq = Recover(mw.rq)]
    /\ UNCHANGED <<mainVars, reqs>>

MW_DeferTrace ==
    /\ mw.rq.pc = "deferTrace"
    /\ mw' = [mw EXCEPT !.rq = DeferTrace(mw.rq)]
    /\ UNCHANGED <<mainVars, reqs>>

MW_Done ==
    /\ mw.rq.pc = "done"
    /\ mw' = [mw EXCEPT !.rq = IdleReq]
    /\ UNCHANGED <<mainVars, reqs>>

NextMW ==
    \/ MW_AppendMiddleware
    \/ MW_Register
    \/ MW_Begin
    \/ MW_MethodGate
    \/ MW_EmptyPath
    \/ MW_GetHandler
    \/ MW_Next
    \/ MW_Write
    \/ MW_Panic
    \/ MW_Return
    \/ MW_ChainReturn
    \/ MW_Recover
    \/ MW_DeferTrace
    \/ MW_Done

SpecMW == Init /\ [][NextMW]_vars

(***************************************************************************)
(* C15: the chain of the engine-level middleware variant                   *)
(***************************************************************************)
MWInvocations(rq, i) ==
    Cardinality({j \in 1..Len(rq.trace) :
                    rq.trace[j].e = "invoke" /\ rq.trace[j].pos = i})

\* C15: in the variant with engine-level middlewares m1..mk (k >= 1), each
\* calling Next() exactly once, a request that matches a route invokes each
\* of m1..mk once and in that order, then the route's handler once, and
\* ServeHTTP returns.
C15_EngineChain ==
    LET rq == mw.rq
        ms == mw.e.middlewares
    IN  (Matched(rq) /\ Len(ms) >= 1 /\ EachCallsNextOnce(ms)) =>
            /\ \A i \in 1..Len(ms) : MWInvocations(rq, i) <= 1
            /\ rq.pc # "crashed"
            /\ rq.pc = "done" =>
                  /\ Invoked(rq) = [i \in 1..Len(ms) |-> i]
                  /\ Len(Events(rq, "handler")) = 1

(***************************************************************************)
(* The state machine of the requests served concurrently                   *)
(***************************************************************************)
Conc_Register ==
    /\ ~reqs.serving
    /\ \E node \in ConcNodePool :
         LET reg == Register(reqs.heap, reqs.e, node)
         IN  /\ <<node.Method, node.Path>> \notin DOMAIN reqs.e.r
             /\ ~reg.panicked
             /\ reqs' = [reqs EXCEPT !.heap = reg.heap, !.e = reg.e]
    /\ UNCHANGED <<mainVars, mw>>

Conc_Begin(i) ==
    /\ reqs.rq[i].pc = "idle"
    /\ \E in \in ConcInputs :
         reqs' = [reqs EXCEPT !.serving = TRUE,
                              !.rq[i] = ServeBegin(reqs.heap, reqs.e, in[1], in[2])]
    /\ UNCHANGED <<mainVars, mw>>

Conc_MethodGate(i) ==
    /\ reqs.rq[i].pc = "gate"
    /\ reqs' = [reqs EXCEPT !.rq[i] = MethodGate(reqs.rq[i], reqs.e)]
    /\ UNCHANGED <<mainVars, mw>>

Conc_EmptyPath(i) ==
    /\ reqs.rq[i].pc = "emptyPath"
    /\ reqs' = [reqs EXCEPT !.rq[i] = EmptyPath(reqs.rq[i], RootPath)]
    /\ UNCHANGED <<mainVars, mw>>

Conc_Lookup(i) ==
    /\ reqs.rq[i].pc = "lookup"
    /\ reqs' = [reqs EXCEPT !.rq[i] = LookupStep(reqs.rq[i], reqs.e)]
    /\ UNCHANGED <<mainVars, mw>>

ConcRunning(i, op) ==
    /\ reqs.rq[i].pc = "run"
    /\ Top(reqs.rq[i]).ip <= Len(FrameScript(Top(reqs.rq[i])))
    /\ FrameScript(Top(reqs.rq[i]))[Top(reqs.rq[i]).ip] = op

Conc_Next(i) ==
    /\ ConcRunning(i, "next")
    /\ reqs' = [reqs EXCEPT !.rq = CtxNext(reqs.rq, i, reqs.heap)]
    /\ UNCHANGED <<mainVars, mw>>

Conc_Write(i) ==
    /\ ConcRunning(i, "write")
    /\ reqs' = [reqs EXCEPT !.rq[i] = UnitWrite(reqs.rq[i])]
    /\ UNCHANGED <<mainVars, mw>>

Conc_Panic(i) ==
    /\ ConcRunning(i, "panic")
    /\ reqs' = [reqs EXCEPT !.rq[i] = Raise(reqs.rq[i], Top(reqs.rq[i]).pos)]
    /\ UNCHANGED <<mainVars, mw>>

Conc_Return(i) ==
    /\ reqs.rq[i].pc = "run"
    /\ Top(reqs.rq[i]).pos >= 0
    /\ Top(reqs.rq[i]).ip > Len(FrameScript(Top(reqs.rq[i])))
    /\ reqs' = [reqs EXCEPT !.rq[i] = NextReturn(reqs.rq[i], reqs.heap)]
    /\ UNCHANGED <<mainVars, mw>>

Conc_ChainReturn(i) ==
    /\ reqs.rq[i].pc = "run"
    /\ Top(reqs.rq[i]).pos = -1
    /\ Top(reqs.rq[i]).ip > Len(FrameScript(Top(reqs.rq[i])))
    /\ reqs' = [reqs EXCEPT !.rq[i] = [reqs.rq[i] EXCEPT !.stack = <<>>,
                                                         !.pc = "deferRecover"]]
    /\ UNCHANGED <<mainVars, mw>>

Conc_Recover(i) ==
    /\ reqs.rq[i].pc = "deferRecover"
    /\ reqs' = [reqs EXCEPT !.rq[i] = Recover(reqs.rq[i])]
    /\ UNCHANGED <<mainVars, mw>>

Conc_DeferTrace(i) ==
    /\ reqs.rq[i].pc = "deferTrace"
    /\ reqs' = [reqs EXCEPT !.rq[i] = DeferTrace(reqs.rq[i])]
    /\ UNCHANGED <<mainVars, mw>>

Conc_Done(i) ==
    /\ reqs.rq[i].pc = "done"
    /\ reqs' = [reqs EXCEPT !.rq[i] = IdleReq]
    /\ UNCHANGED <<mainVars, mw>>

NextConc ==
    \/ Conc_Register
    \/ \E i \in ReqIds : Conc_Begin(i)
    \/ \E i \in ReqIds : Conc_MethodGate(i)
    \/ \E i \in ReqIds : Conc_EmptyPath(i)
    \/ \E i \in ReqIds : Conc_Lookup(i)
    \/ \E i \in ReqIds : Conc_Next(i)
    \/ \E i \in ReqIds : Conc_Write(i)
    \/ \E i \in ReqIds : Conc_Panic(i)
    \/ \E i \in ReqIds : Conc_Return(i)
    \/ \E i \in ReqIds : Conc_ChainReturn(i)
    \/ \E i \in ReqIds : Conc_Recover(i)
    \/ \E i \in ReqIds : Conc_DeferTrace(i)
    \/ \E i \in ReqIds : Conc_Done(i)

SpecConc == Init /\ [][NextConc]_vars

(***************************************************************************)
(* C18: request isolation                                                  *)
(***************************************************************************)
\* C18: while requests are served concurrently (no registration running),
\* the engine's allowed methods, route table and registered chains stay as
\* each request found them, and every request, its cursor and path
\* parameters included, is at each moment in a state it goes through when
\* served alone: its outcome and its unit invocations are those of the
\* request served alone, whatever the other requests do on the same chain.
C18_Isolation ==
    \A i \in ReqIds :
        LET rq == reqs.rq[i]
        IN  rq.pc # "idle" =>
              /\ reqs.e = rq.before.e
              /\ reqs.heap = rq.before.heap
              /\ rq \in AloneStates(ServeBegin(rq.before.heap, rq.before.e,
                                               rq.method, rq.origPath),
                                    rq.before.heap, rq.before.e)

\* two requests run the chain of the same route, at different cursors
C18_Witness ==
    \E i, j \in ReqIds :
        /\ i # j
        /\ reqs.rq[i].pc = "run" /\ reqs.rq[j].pc = "run"
        /\ reqs.rq[i].c.middlewares = reqs.rq[j].c.middlewares
        /\ reqs.rq[i].c.middlewares.len >= 2
        /\ reqs.rq[i].c.curMW = 2 /\ reqs.rq[j].c.curMW = 1
        /\ Len(Events(reqs.rq[j], "invoke")) = 1

====
